---- MODULE Spec2Model ----
(***************************************************************************)
(* Bazaar: the BzScreenshot widget (bz-screenshot.c), the template         *)
(* callbacks and the transaction property of BzTransactionView             *)
(* (bz-transaction-view.c).                                                *)
(*                                                                         *)
(* C doubles are modelled as exact rationals [n, d] in lowest terms, so    *)
(* the geometry is the one the arithmetic of the code describes, without   *)
(* IEEE rounding.  C strings are sequences of one-character strings.       *)
(***************************************************************************)
EXTENDS Integers, Sequences, FiniteSets, TLC

(* ------------------------------ bounds --------------------------------- *)

\* paintable objects 1..NumPaintables that callers have created
NumPaintables == 2
\* transaction objects 1..NumTransactions
NumTransactions == 1
\* references a caller holds on one object at most
MaxExtRefs == 1
\* focus values are -1..MaxFocus
MaxFocus == 0
\* widget sizes, intrinsic sizes and for_size range over 0..MaxSize (and more)
MaxSize == 3
\* the intrinsic aspect ratio is n/d, n in 0..MaxAspectNum, d in 1..MaxAspectDen
MaxAspectNum == 3
MaxAspectDen == 2
\* entry identifiers have at most MaxIdLen characters, operation names
\* MaxNameLen, addon extension-of refs MaxRefLen
MaxIdLen == 2
MaxNameLen == 3
MaxRefLen == 4
\* a list model holds at most MaxItems items
MaxItems == 2

(* ------------------------- program constants --------------------------- *)

NULL == 0
TOP_HALF_FIXED_WIDTH == 650
TOP_HALF_FIXED_HEIGHT == 265

Paintables == 1..NumPaintables
Transactions == 1..NumTransactions
FocusValues == (-1)..MaxFocus
ScalingFilters == {"linear", "nearest", "trilinear"}

\* The GType of a paintable object: a BzAsyncTexture, a GdkTexture or
\* another GdkPaintable.
PaintableKind(p) ==
  IF p % 3 = 1 THEN "async" ELSE IF p % 3 = 2 THEN "texture" ELSE "plain"

(* ------------------------------ doubles -------------------------------- *)

Abs(i) == IF i < 0 THEN -i ELSE i

RECURSIVE Gcd(_, _)
Gcd(a, b) == IF b = 0 THEN a ELSE Gcd(b, a % b)

\* n/d in lowest terms, d > 0
Rat(n, d) ==
  LET g == Gcd(Abs(n), d)
  IN  [n |-> IF n < 0 THEN -(Abs(n) \div g) ELSE n \div g, d |-> d \div g]

RInt(i) == [n |-> i, d |-> 1]
RSub(a, b) == Rat(a.n * b.d - b.n * a.d, a.d * b.d)
RAdd(a, b) == Rat(a.n * b.d + b.n * a.d, a.d * b.d)
RMul(a, b) == Rat(a.n * b.n, a.d * b.d)
\* a / b for b > 0
RDiv(a, b) == Rat(a.n * b.d, a.d * b.n)
RHalf(a) == Rat(a.n, 2 * a.d)
RLt(a, b) == a.n * b.d < b.n * a.d
RLe(a, b) == a.n * b.d <= b.n * a.d
\* ceil of a rational >= 0
RCeil(a) == (a.n + a.d - 1) \div a.d

(* ------------------------------- state --------------------------------- *)

VARIABLES
  paintable,        \* BzScreenshot.paintable: NULL or a paintable
  focus_x,          \* BzScreenshot.focus_x
  focus_y,          \* BzScreenshot.focus_y
  rounded_corners,  \* BzScreenshot.rounded_corners
  top_half,         \* BzScreenshot.top_half
  filter,           \* BzScreenshot.filter
  disposed,         \* bz_screenshot_dispose has run
  refcount,         \* the GObject reference count of each paintable (0: finalized)
  extRefs,          \* the references callers hold on each paintable
  handlers,         \* the widget's signal handlers connected to each paintable
  transaction,      \* BzTransactionView.transaction: NULL or a transaction
  txDisposed,       \* bz_transaction_view_dispose has run
  txRefcount,       \* the reference count of each transaction
  txExtRefs,        \* the references callers hold on each transaction
  useAfterFree,     \* a finalized object has been referenced or dereferenced
  lastSet,          \* the value passed to the most recent call of each setter
  request,          \* what GTK or the template asks next: the inputs of a call
  call              \* the most recent call: its inputs and what it did

wvars == <<paintable, focus_x, focus_y, rounded_corners, top_half, filter, disposed>>
ovars == <<refcount, extRefs, handlers>>
tvars == <<transaction, txDisposed, txRefcount, txExtRefs>>
vars == <<wvars, ovars, tvars, useAfterFree, lastSet, request, call>>

NoHandlers == [contents |-> 0, size |-> 0, loaded |-> 0]

NoRequest == [op |-> "none"]

\* bz_screenshot_init, on a zero-filled instance; every object a caller can
\* pass exists and is owned by that caller.
InitObjects ==
  /\ paintable = NULL
  /\ focus_x = -1
  /\ focus_y = -1
  /\ rounded_corners = TRUE
  /\ top_half = FALSE
  /\ filter = "trilinear"
  /\ disposed = FALSE
  /\ refcount = [p \in Paintables |-> 1]
  /\ extRefs = [p \in Paintables |-> 1]
  /\ handlers = [p \in Paintables |-> NoHandlers]
  /\ transaction = NULL
  /\ txDisposed = FALSE
  /\ txRefcount = [t \in Transactions |-> 1]
  /\ txExtRefs = [t \in Transactions |-> 1]
  /\ useAfterFree = FALSE
  /\ lastSet = [paintable |-> NULL, focus_x |-> -1, focus_y |-> -1,
                rounded_corners |-> TRUE, top_half |-> FALSE,
                filter |-> "trilinear", transaction |-> NULL]
  /\ call = [op |-> "init"]

Init == InitObjects /\ request = NoRequest

(* -------------------------- reference counting ------------------------- *)

\* g_object_unref on object o of a table of reference counts; unref of a
\* finalized object leaves the table alone (the caller flags the use).
Unref(counts, o) ==
  IF counts[o] > 0 THEN [counts EXCEPT ![o] = @ - 1] ELSE counts

\* g_signal_handlers_disconnect_by_func for the three callbacks
DisconnectAll(h, o) == [h EXCEPT ![o] = NoHandlers]

\* g_signal_connect_swapped of invalidate_contents, invalidate_size and, for
\* an async texture, async_loaded
ConnectAll(h, o) ==
  [h EXCEPT ![o] = [contents |-> @.contents + 1,
                    size |-> @.size + 1,
                    loaded |-> IF PaintableKind(o) = "async"
                               THEN @.loaded + 1 ELSE @.loaded]]

\* What g_object_ref (o) can leave in the field when o has been finalized:
\* the dangling pointer, or NULL when its type check fails.
RefOfFinalized(o) == {o, NULL}

\* a setter's record of what it did
SetterCall(name, prop, arg, old, notifies, draws, resizes) ==
  [op |-> name, prop |-> prop, arg |-> arg, old |-> old,
   notifies |-> notifies, draws |-> draws, resizes |-> resizes]

(* ----------------------- BzScreenshot: properties ---------------------- *)

\* bz_screenshot_set_paintable (self, p); p is NULL or a live object.
\* Callers use the setters while the widget is not disposed.
SetPaintable(p) ==
  LET old      == paintable
      dangling == old # NULL /\ refcount[old] = 0
      h1       == IF old # NULL THEN DisconnectAll(handlers, old) ELSE handlers
      rc1      == IF old # NULL THEN Unref(refcount, old) ELSE refcount
      h2       == IF old # NULL /\ rc1[old] = 0 THEN DisconnectAll(h1, old) ELSE h1
      freed    == p # NULL /\ rc1[p] = 0
  IN  /\ ~disposed
      /\ p # NULL => refcount[p] > 0
      /\ IF p = NULL
         THEN /\ paintable' = NULL
              /\ refcount' = rc1
              /\ handlers' = h2
         ELSE IF freed
         THEN /\ paintable' \in RefOfFinalized(p)
              /\ refcount' = rc1
              /\ handlers' = h2
         ELSE /\ paintable' = p
              /\ refcount' = [rc1 EXCEPT ![p] = @ + 1]
              /\ handlers' = ConnectAll(h2, p)
      /\ useAfterFree' = (useAfterFree \/ dangling \/ freed)
      /\ lastSet' = [lastSet EXCEPT !.paintable = p]
      /\ call' = SetterCall("set_paintable", "paintable", p, old, 1, 1, 1)
      /\ UNCHANGED <<focus_x, focus_y, rounded_corners, top_half, filter,
                     disposed, extRefs, tvars, request>>

\* bz_screenshot_set_focus_x
SetFocusX(v) ==
  /\ ~disposed
  /\ focus_x' = v
  /\ lastSet' = [lastSet EXCEPT !.focus_x = v]
  /\ call' = SetterCall("set_focus_x", "focus-x", v, focus_x, 1, 1, 0)
  /\ UNCHANGED <<paintable, focus_y, rounded_corners, top_half, filter,
                 disposed, ovars, tvars, useAfterFree, request>>

\* bz_screenshot_set_focus_y
SetFocusY(v) ==
  /\ ~disposed
  /\ focus_y' = v
  /\ lastSet' = [lastSet EXCEPT !.focus_y = v]
  /\ call' = SetterCall("set_focus_y", "focus-y", v, focus_y, 1, 1, 0)
  /\ UNCHANGED <<paintable, focus_x, rounded_corners, top_half, filter,
                 disposed, ovars, tvars, useAfterFree, request>>

\* bz_screenshot_set_rounded_corners
SetRoundedCorners(v) ==
  /\ ~disposed
  /\ lastSet' = [lastSet EXCEPT !.rounded_corners = v]
  /\ IF rounded_corners = v
     THEN /\ call' = SetterCall("set_rounded_corners", "rounded-corners", v,
                                rounded_corners, 0, 0, 0)
          /\ UNCHANGED rounded_corners
     ELSE /\ rounded_corners' = v
          /\ call' = SetterCall("set_rounded_corners", "rounded-corners", v,
                                rounded_corners, 1, 1, 0)
  /\ UNCHANGED <<paintable, focus_x, focus_y, top_half, filter,
                 disposed, ovars, tvars, useAfterFree, request>>

\* bz_screenshot_set_top_half
SetTopHalf(v) ==
  /\ ~disposed
  /\ lastSet' = [lastSet EXCEPT !.top_half = v]
  /\ IF top_half = v
     THEN /\ call' = SetterCall("set_top_half", "top-half", v, top_half, 0, 0, 0)
          /\ UNCHANGED top_half
     ELSE /\ top_half' = v
          /\ call' = SetterCall("set_top_half", "top-half", v, top_half, 1, 1, 1)
  /\ UNCHANGED <<paintable, focus_x, focus_y, rounded_corners, filter,
                 disposed, ovars, tvars, useAfterFree, request>>

\* bz_screenshot_set_filter
SetFilter(v) ==
  /\ ~disposed
  /\ lastSet' = [lastSet EXCEPT !.filter = v]
  /\ IF filter = v
     THEN /\ call' = SetterCall("set_filter", "filter", v, filter, 0, 0, 0)
          /\ UNCHANGED filter
     ELSE /\ filter' = v
          /\ call' = SetterCall("set_filter", "filter", v, filter, 1, 1, 0)
  /\ UNCHANGED <<paintable, focus_x, focus_y, rounded_corners, top_half,
                 disposed, ovars, tvars, useAfterFree, request>>

\* bz_screenshot_dispose; GObject may run it more than once
Dispose ==
  LET old      == paintable
      dangling == old # NULL /\ refcount[old] = 0
      h1       == IF old # NULL THEN DisconnectAll(handlers, old) ELSE handlers
      rc1      == IF old # NULL THEN Unref(refcount, old) ELSE refcount
  IN  /\ paintable' = NULL
      /\ refcount' = rc1
      /\ handlers' = h1
      /\ disposed' = TRUE
      /\ useAfterFree' = (useAfterFree \/ dangling)
      /\ call' = [op |-> "dispose", old |-> old,
                  released |-> IF old # NULL /\ refcount[old] > 0 THEN 1 ELSE 0]
      /\ UNCHANGED <<focus_x, focus_y, rounded_corners, top_half, filter,
                     extRefs, tvars, lastSet, request>>

\* the signals a paintable of this kind can emit towards the widget
PaintableSignals(p) ==
  IF PaintableKind(p) = "async"
  THEN {"invalidate-contents", "invalidate-size", "notify::loaded"}
  ELSE {"invalidate-contents", "invalidate-size"}

\* a live paintable emits a signal: every connected handler of the widget
\* runs once (invalidate_contents queues a draw, invalidate_size a resize,
\* async_loaded both)
EmitSignal(p, sig) ==
  LET n == IF sig = "invalidate-contents" THEN handlers[p].contents
           ELSE IF sig = "invalidate-size" THEN handlers[p].size
           ELSE handlers[p].loaded
  IN  /\ refcount[p] > 0
      /\ call' = [op |-> "emit", signal |-> sig, arg |-> p,
                  draws   |-> IF sig = "invalidate-size" THEN 0 ELSE n,
                  resizes |-> IF sig = "invalidate-contents" THEN 0 ELSE n]
      /\ UNCHANGED <<wvars, ovars, tvars, useAfterFree, lastSet, request>>

\* a caller takes a reference on a live paintable (g_object_ref)
CallerRef(p) ==
  /\ refcount[p] > 0
  /\ extRefs[p] < MaxExtRefs
  /\ refcount' = [refcount EXCEPT ![p] = @ + 1]
  /\ extRefs' = [extRefs EXCEPT ![p] = @ + 1]
  /\ call' = [op |-> "caller_ref", arg |-> p]
  /\ UNCHANGED <<wvars, handlers, tvars, useAfterFree, lastSet, request>>

\* a caller drops one of its references (g_object_unref); the last
\* reference finalizes the object, which destroys its handlers
CallerUnref(p) ==
  /\ extRefs[p] > 0
  /\ refcount' = [refcount EXCEPT ![p] = @ - 1]
  /\ extRefs' = [extRefs EXCEPT ![p] = @ - 1]
  /\ handlers' = IF refcount[p] = 1 THEN DisconnectAll(handlers, p) ELSE handlers
  /\ call' = [op |-> "caller_unref", arg |-> p]
  /\ UNCHANGED <<wvars, tvars, useAfterFree, lastSet, request>>

(* -------------------- BzTransactionView: transaction ------------------- *)

\* bz_transaction_view_set_transaction (self, t); t is NULL or a live object
SetTransaction(t) ==
  LET old      == transaction
      dangling == old # NULL /\ txRefcount[old] = 0
      rc1      == IF old # NULL THEN Unref(txRefcount, old) ELSE txRefcount
      freed    == t # NULL /\ rc1[t] = 0
  IN  /\ ~txDisposed
      /\ t # NULL => txRefcount[t] > 0
      /\ IF t = NULL
         THEN /\ transaction' = NULL
              /\ txRefcount' = rc1
         ELSE IF freed
         THEN /\ transaction' \in RefOfFinalized(t)
              /\ txRefcount' = rc1
         ELSE /\ transaction' = t
              /\ txRefcount' = [rc1 EXCEPT ![t] = @ + 1]
      /\ useAfterFree' = (useAfterFree \/ dangling \/ freed)
      /\ lastSet' = [lastSet EXCEPT !.transaction = t]
      /\ call' = SetterCall("set_transaction", "transaction", t, old, 1, 0, 0)
      /\ UNCHANGED <<wvars, ovars, txDisposed, txExtRefs, request>>

\* bz_transaction_view_dispose; GObject may run it more than once
TxDispose ==
  LET old      == transaction
      dangling == old # NULL /\ txRefcount[old] = 0
  IN  /\ transaction' = NULL
      /\ txRefcount' = IF old # NULL THEN Unref(txRefcount, old) ELSE txRefcount
      /\ txDisposed' = TRUE
      /\ useAfterFree' = (useAfterFree \/ dangling)
      /\ call' = [op |-> "tx_dispose", old |-> old,
                  released |-> IF old # NULL /\ txRefcount[old] > 0 THEN 1 ELSE 0]
      /\ UNCHANGED <<wvars, ovars, txExtRefs, lastSet, request>>

\* a caller takes a reference on a live transaction
TxCallerRef(t) ==
  /\ txRefcount[t] > 0
  /\ txExtRefs[t] < MaxExtRefs
  /\ txRefcount' = [txRefcount EXCEPT ![t] = @ + 1]
  /\ txExtRefs' = [txExtRefs EXCEPT ![t] = @ + 1]
  /\ call' = [op |-> "tx_caller_ref", arg |-> t]
  /\ UNCHANGED <<wvars, ovars, transaction, txDisposed, useAfterFree, lastSet, request>>

\* a caller drops one of its references on a transaction
TxCallerUnref(t) ==
  /\ txExtRefs[t] > 0
  /\ txRefcount' = [txRefcount EXCEPT ![t] = @ - 1]
  /\ txExtRefs' = [txExtRefs EXCEPT ![t] = @ - 1]
  /\ call' = [op |-> "tx_caller_unref", arg |-> t]
  /\ UNCHANGED <<wvars, ovars, transaction, txDisposed, useAfterFree, lastSet, request>>

(* ----------------- specification: properties and ownership ------------- *)

Next ==
  \/ \E p \in Paintables \cup {NULL} : SetPaintable(p)
  \/ \E v \in FocusValues : SetFocusX(v)
  \/ \E v \in FocusValues : SetFocusY(v)
  \/ \E v \in BOOLEAN : SetRoundedCorners(v)
  \/ \E v \in BOOLEAN : SetTopHalf(v)
  \/ \E v \in ScalingFilters : SetFilter(v)
  \/ Dispose
  \/ \E p \in Paintables : CallerRef(p)
  \/ \E p \in Paintables : CallerUnref(p)
  \/ \E p \in Paintables : \E sig \in PaintableSignals(p) : EmitSignal(p, sig)
  \/ \E t \in Transactions \cup {NULL} : SetTransaction(t)
  \/ TxDispose
  \/ \E t \in Transactions : TxCallerRef(t)
  \/ \E t \in Transactions : TxCallerUnref(t)

Spec == Init /\ [][Next]_vars

(* ------------------- BzScreenshot: measure and snapshot ---------------- *)

\* widths and heights GTK can allocate to the widget
WidgetWidths ==
  (0..MaxSize) \cup {TOP_HALF_FIXED_WIDTH, TOP_HALF_FIXED_WIDTH + MaxSize}
WidgetHeights == (0..MaxSize) \cup {TOP_HALF_FIXED_HEIGHT}
\* gdk_paintable_get_intrinsic_width / _height
IntrinsicSizes == 0..MaxSize
\* for_size: -1 when GTK gives no size
ForSizes == (-1)..MaxSize
\* gdk_paintable_get_intrinsic_aspect_ratio is an/ad; 0 when there is none
AspectNums == 0..MaxAspectNum
AspectDens == 1..MaxAspectDen
\* the values the out parameters hold before the call
CallerValues == {-1, 0}

\* A measure request: the arguments of bz_screenshot_measure and what the
\* paintable's getters return when the code calls them (the intrinsic width
\* is read for the horizontal orientation only, the height and the aspect
\* ratio for the vertical one only).
MeasureRequests ==
  [op : {"measure"}, orientation : {"horizontal"}, for_size : ForSizes,
   iw : IntrinsicSizes, m0 : CallerValues, n0 : CallerValues]
  \cup
  [op : {"measure"}, orientation : {"vertical"}, for_size : ForSizes,
   ih : IntrinsicSizes, an : AspectNums, ad : AspectDens,
   m0 : CallerValues, n0 : CallerValues]

\* A snapshot request: the allocation, the paintable's aspect ratio and
\* whether an async texture has its texture yet.
SnapshotRequests ==
  [op : {"snapshot"}, width : WidgetWidths, height : WidgetHeights,
   an : AspectNums, ad : AspectDens, loaded : BOOLEAN]

\* bz_screenshot_get_request_mode
RequestMode(th) ==
  IF th THEN "constant_size" ELSE "height_for_width"

\* MIN (a, b) of glib
MIN(a, b) == IF a < b THEN a ELSE b

\* the top_half branch with width and height exchanged
MeasureTopHalfSwapped(orientation) ==
  IF orientation = "horizontal"
  THEN [minimum |-> TOP_HALF_FIXED_HEIGHT, natural |-> TOP_HALF_FIXED_HEIGHT]
  ELSE [minimum |-> TOP_HALF_FIXED_WIDTH, natural |-> TOP_HALF_FIXED_WIDTH]

\* bz_screenshot_measure, top_half branch: [minimum, natural]
MeasureTopHalf(orientation) ==
  IF orientation = "horizontal"
  THEN [minimum |-> TOP_HALF_FIXED_WIDTH, natural |-> TOP_HALF_FIXED_WIDTH]
  ELSE [minimum |-> TOP_HALF_FIXED_HEIGHT, natural |-> TOP_HALF_FIXED_HEIGHT]

\* the fit branch without the MIN against the intrinsic height
MeasureFitUnbounded(q) ==
  IF q.orientation = "vertical"
  THEN IF q.for_size >= 0 /\ q.an > 0
       THEN LET result == RCeil(RDiv(RInt(q.for_size), Rat(q.an, q.ad)))
            IN  [minimum |-> result, natural |-> result]
       ELSE [minimum |-> 0, natural |-> q.ih]
  ELSE [minimum |-> 0, natural |-> q.iw]

\* bz_screenshot_measure, fit branch: [minimum, natural]
MeasureFit(q) ==
  IF q.orientation = "vertical"
  THEN IF q.for_size >= 0 /\ q.an > 0
       THEN LET result == RCeil(RDiv(RInt(q.for_size), Rat(q.an, q.ad)))
            IN  [minimum |-> MIN(q.ih, result), natural |-> MIN(q.ih, result)]
       ELSE [minimum |-> 0, natural |-> q.ih]
  ELSE [minimum |-> 0, natural |-> q.iw]

\* measure with the top_half branch taken before the NULL check
MeasureResultTopHalfFirst(p, th, q) ==
  IF th
  THEN MeasureTopHalf(q.orientation)
  ELSE IF p = NULL
  THEN [minimum |-> q.m0, natural |-> q.n0]
  ELSE MeasureFit(q)

\* bz_screenshot_measure: the out parameters after the call
MeasureResult(p, th, q) ==
  IF p = NULL
  THEN [minimum |-> q.m0, natural |-> q.n0]
  ELSE IF th
  THEN MeasureTopHalf(q.orientation)
  ELSE MeasureFit(q)

\* the fit branch without the clamp to the widget height
FitGeometryUnclamped(ww, wh, an, ad) ==
  LET sw == RInt(ww)
      sh == IF an > 0 THEN RDiv(RInt(ww), Rat(an, ad)) ELSE RInt(wh)
  IN  [x |-> RHalf(RSub(RInt(ww), sw)), y |-> RHalf(RSub(RInt(wh), sh)),
       w |-> sw, h |-> sh]

\* bz_screenshot_snapshot, fit branch: x, y, scaled_w, scaled_h
FitGeometry(ww, wh, an, ad) ==
  LET aspect == Rat(an, ad)
      sh0    == IF an > 0 THEN RDiv(RInt(ww), aspect) ELSE RInt(wh)
      clamp  == an > 0 /\ RLt(RInt(wh), sh0)
      sh     == IF clamp THEN RInt(wh) ELSE sh0
      sw     == IF clamp THEN RMul(sh, aspect) ELSE RInt(ww)
  IN  [x |-> RHalf(RSub(RInt(ww), sw)), y |-> RHalf(RSub(RInt(wh), sh)),
       w |-> sw, h |-> sh]

\* the top_half branch scaled to the widget's width instead of the fixed one
TopHalfGeometryWidgetWidth(ww, wh, an, ad) ==
  LET sw == RInt(ww)
      sh == IF an > 0 THEN RDiv(sw, Rat(an, ad)) ELSE RInt(2 * wh)
  IN  [x |-> RHalf(RSub(RInt(ww), sw)), y |-> RInt(0), w |-> sw, h |-> sh]

\* bz_screenshot_snapshot, top_half branch: x, y, scaled_w, scaled_h
TopHalfGeometry(ww, wh, an, ad) ==
  LET sw == RInt(TOP_HALF_FIXED_WIDTH)
      sh == IF an > 0 THEN RDiv(sw, Rat(an, ad)) ELSE RInt(2 * wh)
  IN  [x |-> RHalf(RSub(RInt(ww), sw)), y |-> RInt(0), w |-> sw, h |-> sh]

Geometry(th, ww, wh, an, ad) ==
  IF th THEN TopHalfGeometry(ww, wh, an, ad) ELSE FitGeometry(ww, wh, an, ad)

\* one call on the GtkSnapshot
Node(op, x, y, w, h) == [op |-> op, x |-> x, y |-> y, w |-> w, h |-> h]
Zero == RInt(0)

\* the clips pushed when rounded_corners is set
ClipNodes(rc, th, g, ww, wh) ==
  IF rc
  THEN IF th
       THEN <<Node("push_rounded_clip", g.x, g.y, g.w, g.h),
              Node("push_clip", Zero, Zero, RInt(ww), RInt(wh))>>
       ELSE <<Node("push_rounded_clip", Zero, Zero, RInt(ww), RInt(wh))>>
  ELSE <<>>

\* the image: a scaled texture for the nearest filter, else the paintable
ImageNodes(flt, kind, loaded, g) ==
  IF flt = "nearest" /\ kind = "async"
  THEN IF loaded
       THEN <<Node("append_scaled_texture", Zero, Zero, g.w, g.h)>>
       ELSE <<>>
  ELSE IF flt = "nearest" /\ kind = "texture"
  THEN <<Node("append_scaled_texture", Zero, Zero, g.w, g.h)>>
  ELSE <<Node("paintable_snapshot", Zero, Zero, g.w, g.h)>>

\* one pop for the rounded clip, none for the second clip of top_half
PopNodesOnce(rc, th) ==
  IF rc THEN <<Node("pop", Zero, Zero, Zero, Zero)>> ELSE <<>>

\* the gtk_snapshot_pop calls after the image
PopNodes(rc, th) ==
  IF rc
  THEN <<Node("pop", Zero, Zero, Zero, Zero)>>
       \o (IF th THEN <<Node("pop", Zero, Zero, Zero, Zero)>> ELSE <<>>)
  ELSE <<>>

\* bz_screenshot_snapshot: the calls it makes on the GtkSnapshot, in order
SnapshotNodes(p, rc, th, flt, q) ==
  IF p = NULL
  THEN <<>>
  ELSE LET g == Geometry(th, q.width, q.height, q.an, q.ad)
       IN  ClipNodes(rc, th, g, q.width, q.height)
           \o <<Node("translate", g.x, g.y, Zero, Zero)>>
           \o ImageNodes(flt, PaintableKind(p), q.loaded, g)
           \o PopNodes(rc, th)

\* GTK asks the widget for its request mode
GetRequestMode ==
  /\ ~disposed
  /\ call' = [op |-> "get_request_mode", ret |-> RequestMode(top_half)]
  /\ UNCHANGED <<wvars, ovars, tvars, useAfterFree, lastSet, request>>

\* GTK measures the widget
Measure ==
  /\ ~disposed
  /\ request.op = "measure"
  /\ call' = [op |-> "measure", in |-> request,
              out |-> MeasureResult(paintable, top_half, request)]
  /\ UNCHANGED <<wvars, ovars, tvars, useAfterFree, lastSet, request>>

\* GTK draws the widget at its allocated size
Snapshot ==
  /\ ~disposed
  /\ request.op = "snapshot"
  /\ call' = [op |-> "snapshot", in |-> request,
              nodes |-> SnapshotNodes(paintable, rounded_corners, top_half,
                                      filter, request)]
  /\ UNCHANGED <<wvars, ovars, tvars, useAfterFree, lastSet, request>>

(* -------------------- specification: size and drawing ------------------ *)

LayoutInit ==
  /\ InitObjects
  /\ request \in MeasureRequests \cup SnapshotRequests

LayoutNext ==
  \/ \E p \in Paintables \cup {NULL} : SetPaintable(p)
  \/ \E v \in BOOLEAN : SetRoundedCorners(v)
  \/ \E v \in BOOLEAN : SetTopHalf(v)
  \/ \E v \in ScalingFilters : SetFilter(v)
  \/ GetRequestMode
  \/ Measure
  \/ Snapshot

LayoutSpec == LayoutInit /\ [][LayoutNext]_vars

(* ------------------- claims: size and drawing (LayoutSpec) ------------- *)

\* the positions of the image in a snapshot's calls
ImageIdx(nodes) ==
  {i \in DOMAIN nodes : nodes[i].op \in {"append_scaled_texture", "paintable_snapshot"}}

\* the rectangle image i covers in widget coordinates: its size at the
\* offset of the translation before it
PaintedRect(nodes, i) ==
  LET t == CHOOSE j \in DOMAIN nodes : j < i /\ nodes[j].op = "translate"
  IN  [x |-> nodes[t].x, y |-> nodes[t].y, w |-> nodes[i].w, h |-> nodes[i].h]

\* a snapshot of a widget in fit mode whose paintable has an aspect ratio
FitSnapshot ==
  /\ call.op = "snapshot"
  /\ ~top_half
  /\ paintable # NULL
  /\ call.in.an > 0

\* C1: in fit mode with an aspect ratio > 0 the painted rectangle keeps the
\* aspect ratio (scaled_w = scaled_h * aspect), lies inside the widget, is
\* centred on both axes and touches the widget on one axis (scaled_w =
\* widget_width or scaled_h = widget_height).
C1_FitInsideCentredMaximal ==
  FitSnapshot =>
    \A i \in ImageIdx(call.nodes) :
      LET r  == PaintedRect(call.nodes, i)
          ww == call.in.width
          wh == call.in.height
      IN  /\ r.w.n * r.h.d * call.in.ad = r.h.n * call.in.an * r.w.d
          /\ r.x.n >= 0
          /\ r.y.n >= 0
          /\ r.x.n * r.w.d + r.w.n * r.x.d <= ww * r.x.d * r.w.d
          /\ r.y.n * r.h.d + r.h.n * r.y.d <= wh * r.y.d * r.h.d
          /\ 2 * r.x.n * r.w.d + r.w.n * r.x.d = ww * r.x.d * r.w.d
          /\ 2 * r.y.n * r.h.d + r.h.n * r.y.d = wh * r.y.d * r.h.d
          /\ (r.w.n = ww * r.w.d \/ r.h.n = wh * r.h.d)

\* a fit-mode snapshot whose image is narrower than the widget: the height
\* was the limit
C1_Witness ==
  /\ FitSnapshot
  /\ \E i \in ImageIdx(call.nodes) :
       LET r == PaintedRect(call.nodes, i)
       IN  /\ r.w.n < call.in.width * r.w.d
           /\ r.w.n > 0
           /\ r.x.n > 0

\* C2: in top-half mode with a paintable the request is fixed: constant-size
\* request mode, minimum = natural = 650 horizontally and 265 vertically,
\* whatever for_size and the paintable's intrinsic size and aspect ratio are.
C2_TopHalfFixedRequest ==
  (top_half /\ paintable # NULL) =>
    /\ call.op = "get_request_mode" => call.ret = "constant_size"
    /\ call.op = "measure" =>
         /\ call.out.minimum = call.out.natural
         /\ call.out.natural = IF call.in.orientation = "horizontal" THEN 650 ELSE 265

\* a vertical top-half measure for a width and an aspect ratio that fit mode
\* would have answered differently
C2_Witness ==
  /\ top_half
  /\ paintable # NULL
  /\ call.op = "measure"
  /\ call.in.orientation = "vertical"
  /\ call.in.for_size >= 0
  /\ call.in.an > 0
  /\ call.out.natural = 265

\* C3: in top-half mode with a paintable the image is drawn under a clip
\* equal to the widget's bounds (0, 0, widget_width, widget_height), for both
\* values of rounded_corners.
C3_TopHalfClippedToWidget ==
  (call.op = "snapshot" /\ top_half /\ paintable # NULL) =>
    \A i \in ImageIdx(call.nodes) :
      \E j \in 1..(i - 1) :
        call.nodes[j] = Node("push_clip", Zero, Zero,
                             RInt(call.in.width), RInt(call.in.height))

\* the smallest k with k * b >= a, for a >= 0 and b > 0: ceil (a / b)
CeilDiv(a, b) == CHOOSE k \in 0..a : k * b >= a /\ (k = 0 \/ (k - 1) * b < a)

\* C10: in fit mode with a paintable, measure reports: vertically with
\* for_size >= 0 and aspect > 0, minimum = natural = min (intrinsic_height,
\* ceil (for_size / aspect)); vertically otherwise minimum = 0 and natural =
\* intrinsic_height; horizontally minimum = 0 and natural = intrinsic_width.
\* So 0 <= minimum <= natural, and the natural height is at most the
\* intrinsic height.
C10_FitMeasure ==
  (call.op = "measure" /\ ~top_half /\ paintable # NULL) =>
    LET q == call.in
        o == call.out
    IN  /\ IF q.orientation = "vertical"
           THEN /\ IF q.for_size >= 0 /\ q.an > 0
                   THEN LET c == CeilDiv(q.for_size * q.ad, q.an)
                            m == IF q.ih <= c THEN q.ih ELSE c
                        IN  o.minimum = m /\ o.natural = m
                   ELSE o.minimum = 0 /\ o.natural = q.ih
                /\ o.natural <= q.ih
           ELSE o.minimum = 0 /\ o.natural = q.iw
        /\ 0 <= o.minimum
        /\ o.minimum <= o.natural

\* a vertical fit measure where the width decides (the quotient is below the
\* intrinsic height) and the division is not exact
C10_Witness ==
  /\ call.op = "measure"
  /\ ~top_half
  /\ paintable # NULL
  /\ call.in.orientation = "vertical"
  /\ call.in.for_size > 0
  /\ call.in.an > 0
  /\ (call.in.for_size * call.in.ad) % call.in.an # 0
  /\ call.out.natural < call.in.ih
  /\ call.out.natural > 0

(* ---------------- claims: properties and ownership (Spec) -------------- *)

\* bz_screenshot_get_paintable, _get_focus_x, _get_focus_y,
\* _get_rounded_corners, _get_top_half, _get_filter and
\* bz_transaction_view_get_transaction, by property name
Getter(prop) ==
  CASE prop = "paintable" -> paintable
    [] prop = "focus-x" -> focus_x
    [] prop = "focus-y" -> focus_y
    [] prop = "rounded-corners" -> rounded_corners
    [] prop = "top-half" -> top_half
    [] prop = "filter" -> filter
    [] prop = "transaction" -> transaction

SetterOps ==
  {"set_paintable", "set_focus_x", "set_focus_y", "set_rounded_corners",
   "set_top_half", "set_filter", "set_transaction"}

\* C7: while the object lives, each getter returns the value passed to the
\* most recent call of its own setter, or the initial value if there was
\* none; a setter changes no other property.
C7_GettersReturnLastSet ==
  /\ ~disposed =>
       /\ Getter("paintable") = lastSet.paintable
       /\ Getter("focus-x") = lastSet.focus_x
       /\ Getter("focus-y") = lastSet.focus_y
       /\ Getter("rounded-corners") = lastSet.rounded_corners
       /\ Getter("top-half") = lastSet.top_half
       /\ Getter("filter") = lastSet.filter
  /\ ~txDisposed => Getter("transaction") = lastSet.transaction

\* C8: a setter call emits the notify of its property exactly once if it
\* changes the stored value, and emits nothing and queues no draw or resize
\* if the new value equals the current one.
C8_NotifyOnlyOnChange ==
  call.op \in SetterOps =>
    IF Getter(call.prop) # call.old
    THEN call.notifies = 1
    ELSE call.notifies = 0 /\ call.draws = 0 /\ call.resizes = 0

\* C9: the widget holds exactly one reference on its current paintable
\* (transaction) and none on any other, never touches an object after its
\* last reference is dropped, and after dispose the field is NULL with the
\* reference released.
C9_OwnershipSound ==
  /\ ~useAfterFree
  /\ \A p \in Paintables :
       refcount[p] - extRefs[p] = IF paintable = p THEN 1 ELSE 0
  /\ \A t \in Transactions :
       txRefcount[t] - txExtRefs[t] = IF transaction = t THEN 1 ELSE 0
  /\ disposed => paintable = NULL
  /\ txDisposed => transaction = NULL

(* ------------------ BzTransactionView: template callbacks -------------- *)

\* C strings: sequences of characters; NULLSTR is the NULL char pointer
NULLSTR == <<"NULL">>
Chars == {"a", "b"}
RefChars == {"a", "/"}
StringsOver(alphabet, n) == UNION {[1..k -> alphabet] : k \in 0..n}

\* objects behind pointers are records with a null field; NullObj is NULL
NullObj == [null |-> TRUE]
NoIcon == "NULL"

Entry(id, icon, flatpak, kind, ext) ==
  [null |-> FALSE, id |-> id, icon |-> icon, flatpak |-> flatpak,
   kind |-> kind, extension_of_ref |-> ext]
Tracker(entry, type) == [null |-> FALSE, entry |-> entry, type |-> type]
OpPayload(name) == [null |-> FALSE, name |-> name]
Task(error, op) == [null |-> FALSE, error |-> error, op |-> op]
Group(id, icon) == [null |-> FALSE, id |-> id, icon |-> icon]
\* a window and what bz_window_get_state_info gives: NULL, or the ids the
\* application factory converts to a group and the icon such a group has
Window(info) == [null |-> FALSE, info |-> info]
StateInfo(known, gicon) == [null |-> FALSE, known |-> known, gicon |-> gicon]

EntryKinds == {"application", "runtime", "addon"}
TransactionTypes == {"install", "update", "removal"}

\* strstr restricted to a match at the start of the haystack
StrstrAtStart(haystack, needle) ==
  IF Len(needle) <= Len(haystack) /\ SubSeq(haystack, 1, Len(needle)) = needle
  THEN 1 ELSE NULL

\* strstr (haystack, needle): the position of the first occurrence, NULL
\* when there is none
Strstr(haystack, needle) ==
  LET at == {i \in 1..(Len(haystack) - Len(needle) + 1) :
               SubSeq(haystack, i, i + Len(needle) - 1) = needle}
  IN  IF at = {} THEN NULL ELSE CHOOSE i \in at : \A j \in at : i <= j

\* strchr (s, c) on the suffix of s from position from: the position of the
\* first c, NULL when there is none
Strchr(s, from, c) ==
  LET at == {i \in from..Len(s) : s[i] = c}
  IN  IF at = {} THEN NULL ELSE CHOOSE i \in at : \A j \in at : i <= j

\* filter_finished_ops_by_app_id (item, user_data)
FilterFinishedOpsByAppId(task, tracker) ==
  IF task.null \/ tracker.null THEN TRUE
  ELSE IF task.error # NULLSTR THEN TRUE
  ELSE IF tracker.entry.null THEN TRUE
  ELSE IF tracker.entry.id = NULLSTR THEN TRUE
  ELSE IF task.op.null THEN TRUE
  ELSE IF task.op.name = NULLSTR THEN TRUE
  ELSE Strstr(task.op.name, tracker.entry.id) = NULL

\* create_app_id_filter: the filter, and the references it takes on the tracker
CreateAppIdFilterResult(tracker) ==
  IF tracker.null
  THEN [filter |-> NullObj, tracker_refs |-> 0]
  ELSE [filter |-> [null |-> FALSE, func |-> "filter_finished_ops_by_app_id",
                    user_data |-> tracker],
        tracker_refs |-> 1]

\* is_transaction_type
IsTransactionType(tracker, type) ==
  IF tracker.null THEN FALSE ELSE tracker.type = type

\* list_has_items with >= for >
ListHasItemsOrEmpty(model) ==
  IF model.null THEN FALSE ELSE model.n_items >= 0

\* list_has_items
ListHasItems(model) ==
  IF model.null THEN FALSE ELSE model.n_items > 0

\* bz_entry_is_of_kinds (bz-entry.c)
IsOfKinds(entry, kind) == entry.kind = kind

\* is_entry_kind
IsEntryKind(tracker, kind) ==
  IF tracker.null THEN FALSE
  ELSE IF tracker.entry.null THEN FALSE
  ELSE IsOfKinds(tracker.entry, kind)

\* bz_application_map_factory_convert_one on the window's factory
ConvertOne(info, id) ==
  IF id \in info.known THEN Group(id, info.gicon) ELSE NullObj

\* resolve_group_from_entry (entry, window), for a Flatpak entry
ResolveGroupFromEntry(entry, window) ==
  LET info   == window.info
      byId   == IF IsOfKinds(entry, "application")
                THEN ConvertOne(info, entry.id) ELSE NullObj
      ref    == entry.extension_of_ref
      slash  == Strchr(ref, 1, "/")
      term   == Strchr(ref, slash + 1, "/")
      generic == SubSeq(ref, slash + 1,
                        IF term = NULL THEN Len(ref) ELSE term - 1)
  IN  IF info.null THEN NullObj
      ELSE IF ~byId.null THEN byId
      ELSE IF ref = NULLSTR THEN NullObj
      ELSE IF slash = NULL THEN NullObj
      ELSE ConvertOne(info, generic)

GenericIcon == "application-x-executable"

\* get_main_icon with the group's icon taking precedence for Flatpak entries
GetMainIconGroupFirst(window, tracker) ==
  IF tracker.null THEN GenericIcon
  ELSE IF tracker.entry.null THEN GenericIcon
  ELSE LET entry == tracker.entry
           group == ResolveGroupFromEntry(entry, window)
       IN  IF entry.flatpak /\ ~window.null /\ ~group.null /\ group.icon # NoIcon
           THEN group.icon
           ELSE IF entry.icon # NoIcon THEN entry.icon
           ELSE GenericIcon

\* get_main_icon (list_item, tracker); window is the BzWindow ancestor of the
\* list item's child, NULL when it has none
GetMainIcon(window, tracker) ==
  IF tracker.null THEN GenericIcon
  ELSE IF tracker.entry.null THEN GenericIcon
  ELSE LET entry == tracker.entry
       IN  IF entry.icon # NoIcon THEN entry.icon
           ELSE IF entry.flatpak
           THEN IF window.null THEN GenericIcon
                ELSE LET group == ResolveGroupFromEntry(entry, window)
                     IN  IF group.null THEN GenericIcon
                         ELSE IF group.icon # NoIcon THEN group.icon
                         ELSE GenericIcon
           ELSE GenericIcon

\* one call or read made while a callback runs, with the entry it is made on
Event(ev, entry) ==
  [ev |-> ev, entry_null |-> entry.null,
   flatpak |-> IF entry.null THEN FALSE ELSE entry.flatpak]

\* resolve_group_from_entry (entry, window): the call itself and, when it gets
\* that far, the read of the addon extension-of ref through the
\* BZ_FLATPAK_ENTRY cast; a NULL entry is of no kind
ResolveEvents(entry, window) ==
  LET info  == window.info
      found == IF entry.null THEN FALSE
               ELSE IF info.null THEN FALSE
               ELSE IsOfKinds(entry, "application")
                    /\ ~ConvertOne(info, entry.id).null
  IN  <<Event("resolve_group_from_entry", entry)>>
      \o (IF info.null \/ found THEN <<>>
          ELSE <<Event("bz_flatpak_entry_get_addon_extension_of_ref", entry)>>)

\* the entry as the getters of resolve_group_from_entry see it, ref being what
\* the extension-of read gives: a NULL entry has no kind and no id
EntryAsRead(entry, ref) ==
  IF entry.null THEN Entry(NULLSTR, NoIcon, FALSE, "none", ref)
  ELSE [entry EXCEPT !.extension_of_ref = ref]

\* what the extension-of read can give: the entry's ref for a Flatpak entry;
\* for NULL or an entry of another type NULL from the getter's type check,
\* or any ref when the type checks are compiled out
RefsRead(entry, refs) ==
  IF entry.null THEN refs
  ELSE IF entry.flatpak THEN {entry.extension_of_ref}
  ELSE refs

\* get_main_icon: what it calls resolve_group_from_entry with
GetMainIconEvents(window, tracker) ==
  IF tracker.null THEN <<>>
  ELSE IF tracker.entry.null THEN <<>>
  ELSE IF tracker.entry.icon # NoIcon THEN <<>>
  ELSE IF ~tracker.entry.flatpak THEN <<>>
  ELSE IF window.null THEN <<>>
  ELSE ResolveEvents(tracker.entry, window)

\* entry_clicked (list_item, button); tracker is the list item's item, window
\* the BzWindow ancestor of the button, ref what the extension-of read gives
EntryClicked(window, tracker, ref) ==
  LET entry == IF tracker.null THEN NullObj ELSE tracker.entry
  IN  IF window.null
      THEN [events |-> <<>>, group |-> NullObj, shown |-> 0]
      ELSE LET group == ResolveGroupFromEntry(EntryAsRead(entry, ref), window)
           IN  [events |-> ResolveEvents(entry, window),
                group  |-> group,
                shown  |-> IF group.null THEN 0 ELSE 1]

(* the inputs of the callbacks *)

Ids == StringsOver(Chars, MaxIdLen) \cup {NULLSTR}
Names == StringsOver(Chars, MaxNameLen) \cup {NULLSTR}
ExtRefs == StringsOver(RefChars, MaxRefLen) \cup {NULLSTR}
\* an entry of which only the id matters
PlainEntry(id) == Entry(id, NoIcon, FALSE, "application", NULLSTR)

FilterTasks ==
  {NullObj}
  \cup {Task(e, NullObj) : e \in {NULLSTR, <<"e">>}}
  \cup {Task(e, OpPayload(n)) : e \in {NULLSTR, <<"e">>}, n \in Names}
FilterTrackers ==
  {NullObj, Tracker(NullObj, "install")}
  \cup {Tracker(PlainEntry(id), "install") : id \in Ids}

TypeTrackers == {NullObj} \cup {Tracker(NullObj, t) : t \in TransactionTypes}
KindTrackers ==
  {NullObj, Tracker(NullObj, "install")}
  \cup {Tracker(Entry(<<"a">>, NoIcon, f, k, NULLSTR), "install") :
          f \in BOOLEAN, k \in EntryKinds}
ListModels == {NullObj} \cup {[null |-> FALSE, n_items |-> n] : n \in 0..MaxItems}

\* only a Flatpak entry has an addon extension-of ref
IconEntries ==
  {Entry(id, icon, TRUE, k, ref) :
     id \in Ids, icon \in {NoIcon, "entry-icon"}, k \in EntryKinds, ref \in ExtRefs}
  \cup {Entry(id, icon, FALSE, k, NULLSTR) :
     id \in Ids, icon \in {NoIcon, "entry-icon"}, k \in EntryKinds}
IconTrackers ==
  {NullObj, Tracker(NullObj, "install")}
  \cup {Tracker(e, "install") : e \in IconEntries}
Windows ==
  {NullObj, Window(NullObj)}
  \cup {Window(StateInfo(known, gicon)) :
          known \in SUBSET {<<"a">>, <<"b">>}, gicon \in {NoIcon, "group-icon"}}

ViewRequests ==
  [op : {"filter_finished_ops_by_app_id"}, task : FilterTasks, tracker : FilterTrackers]
  \cup [op : {"create_app_id_filter"}, tracker : FilterTrackers]
  \cup [op : {"is_transaction_type"}, tracker : TypeTrackers, type : TransactionTypes]
  \cup [op : {"list_has_items"}, model : ListModels]
  \cup [op : {"is_entry_kind"}, tracker : KindTrackers, kind : EntryKinds]
  \cup [op : {"get_main_icon"}, window : Windows, tracker : IconTrackers]
  \cup [op : {"entry_clicked"}, window : Windows, tracker : IconTrackers]

\* GTK evaluates a template callback on the request's arguments
Answer(ret) ==
  /\ call' = [op |-> request.op, in |-> request, ret |-> ret]
  /\ UNCHANGED <<wvars, ovars, tvars, useAfterFree, lastSet, request>>

CallFilterFinishedOps ==
  /\ request.op = "filter_finished_ops_by_app_id"
  /\ Answer(FilterFinishedOpsByAppId(request.task, request.tracker))

CallCreateAppIdFilter ==
  /\ request.op = "create_app_id_filter"
  /\ Answer(CreateAppIdFilterResult(request.tracker))

CallIsTransactionType ==
  /\ request.op = "is_transaction_type"
  /\ Answer(IsTransactionType(request.tracker, request.type))

CallListHasItems ==
  /\ request.op = "list_has_items"
  /\ Answer(ListHasItems(request.model))

CallIsEntryKind ==
  /\ request.op = "is_entry_kind"
  /\ Answer(IsEntryKind(request.tracker, request.kind))

CallGetMainIcon ==
  /\ request.op = "get_main_icon"
  /\ call' = [op |-> request.op, in |-> request,
              ret |-> GetMainIcon(request.window, request.tracker),
              events |-> GetMainIconEvents(request.window, request.tracker)]
  /\ UNCHANGED <<wvars, ovars, tvars, useAfterFree, lastSet, request>>

\* GTK runs the clicked handler of an entry's button
CallEntryClicked ==
  LET entry == IF request.tracker.null THEN NullObj ELSE request.tracker.entry
  IN  /\ request.op = "entry_clicked"
      /\ call' \in
           {[op |-> request.op, in |-> request,
             ran |-> EntryClicked(request.window, request.tracker, ref)] :
              ref \in RefsRead(entry, ExtRefs)}
      /\ UNCHANGED <<wvars, ovars, tvars, useAfterFree, lastSet, request>>

(* -------------------- specification: template callbacks ---------------- *)

ViewInit ==
  /\ InitObjects
  /\ request \in ViewRequests

ViewNext ==
  \/ CallFilterFinishedOps
  \/ CallCreateAppIdFilter
  \/ CallIsTransactionType
  \/ CallListHasItems
  \/ CallIsEntryKind
  \/ CallGetMainIcon
  \/ CallEntryClicked

ViewSpec == ViewInit /\ [][ViewNext]_vars

(* ------------------ claims: template callbacks (ViewSpec) -------------- *)

\* needle occurs in haystack as a contiguous substring
Contains(haystack, needle) ==
  \E k \in 0..Len(haystack) :
    /\ k + Len(needle) <= Len(haystack)
    /\ \A i \in 1..Len(needle) : haystack[k + i] = needle[i]

\* C4: filter_finished_ops_by_app_id returns FALSE if and only if task and
\* tracker are non-NULL, the task has no error, the entry, its id, the op and
\* its name are non-NULL and the op name contains the entry id as a
\* contiguous substring; in every other case it returns TRUE.
C4_FilterIsSubstringMatch ==
  call.op = "filter_finished_ops_by_app_id" =>
    LET task    == call.in.task
        tracker == call.in.tracker
    IN  /\ call.ret \in BOOLEAN
        /\ call.ret = FALSE <=>
             /\ ~task.null
             /\ ~tracker.null
             /\ task.error = NULLSTR
             /\ ~tracker.entry.null
             /\ tracker.entry.id # NULLSTR
             /\ ~task.op.null
             /\ task.op.name # NULLSTR
             /\ Contains(task.op.name, tracker.entry.id)

\* a task filtered out because its op name holds the non-empty id after
\* its first character
C4_Witness ==
  /\ call.op = "filter_finished_ops_by_app_id"
  /\ call.ret = FALSE
  /\ LET name == call.in.task.op.name
         id   == call.in.tracker.entry.id
     IN  /\ Len(id) > 0
         /\ Len(name) > Len(id)
         /\ SubSeq(name, 1, Len(id)) # id

\* C5: the callbacks return a safe default on NULL: is_transaction_type is
\* FALSE for a NULL tracker, is_entry_kind is FALSE for a NULL tracker or a
\* NULL entry, list_has_items is FALSE for a NULL model and otherwise TRUE
\* iff the model has an item, create_app_id_filter returns NULL and takes no
\* reference for a NULL tracker.
C5_NullSafeDefaults ==
  /\ (call.op = "is_transaction_type" /\ call.in.tracker.null) => call.ret = FALSE
  /\ (call.op = "is_entry_kind" /\ call.in.tracker.null) => call.ret = FALSE
  /\ (call.op = "is_entry_kind" /\ ~call.in.tracker.null
        /\ call.in.tracker.entry.null) => call.ret = FALSE
  /\ call.op = "list_has_items" =>
       call.ret = (~call.in.model.null /\ call.in.model.n_items >= 1)
  /\ (call.op = "create_app_id_filter" /\ call.in.tracker.null) =>
       (call.ret.filter.null /\ call.ret.tracker_refs = 0)

\* is_entry_kind answered FALSE for a tracker that has no entry
C5_Witness ==
  /\ call.op = "is_entry_kind"
  /\ ~call.in.tracker.null
  /\ call.in.tracker.entry.null
  /\ call.ret = FALSE

\* C6: get_main_icon yields the entry's own icon if it has one; otherwise,
\* only for a Flatpak entry with a window and a resolved group that has an
\* icon, the group's icon; otherwise the generic application-x-executable
\* icon.  It always yields an icon, and never the group's icon when the
\* entry has its own.
C6_MainIconPriority ==
  call.op = "get_main_icon" =>
    LET tracker  == call.in.tracker
        window   == call.in.window
        hasEntry == ~tracker.null /\ ~tracker.entry.null
        hasOwn   == hasEntry /\ tracker.entry.icon # NoIcon
        group    == ResolveGroupFromEntry(tracker.entry, window)
        useGroup == /\ hasEntry
                    /\ ~hasOwn
                    /\ tracker.entry.flatpak
                    /\ ~window.null
                    /\ ~group.null
                    /\ group.icon # NoIcon
    IN  /\ call.ret # NoIcon
        /\ hasOwn => call.ret = "entry-icon"
        /\ (~hasOwn /\ useGroup) => call.ret = "group-icon"
        /\ (~hasOwn /\ ~useGroup) => call.ret = "application-x-executable"

\* the group's icon was used for an addon whose group came from its
\* extension-of ref
C6_Witness ==
  /\ call.op = "get_main_icon"
  /\ call.ret = "group-icon"
  /\ call.in.tracker.entry.kind = "addon"
  /\ call.in.tracker.entry.icon = NoIcon

(* --------------- claims: top-half drawing, NULL, clip balance ---------- *)

\* C11: in top-half mode the image is painted 650 wide whatever the widget's
\* width, at y = 0 and x = (widget_width - 650) / 2 (negative for a widget
\* narrower than 650); its height is 650 / aspect when the aspect ratio is
\* > 0 and 2 * widget_height otherwise.
C11_TopHalfFixedWidthAnchoredTop ==
  (call.op = "snapshot" /\ top_half /\ paintable # NULL) =>
    \A i \in ImageIdx(call.nodes) :
      LET r  == PaintedRect(call.nodes, i)
          ww == call.in.width
          wh == call.in.height
      IN  /\ r.w.n = 650 * r.w.d
          /\ r.y.n = 0
          /\ 2 * r.x.n = (ww - 650) * r.x.d
          /\ (ww < 650) => r.x.n < 0
          /\ IF call.in.an > 0
             THEN r.h.n * call.in.an = 650 * call.in.ad * r.h.d
             ELSE r.h.n = 2 * wh * r.h.d

\* a top-half snapshot of a widget narrower than 650: the image starts left
\* of the widget and keeps the paintable's aspect ratio
C11_Witness ==
  /\ call.op = "snapshot"
  /\ top_half
  /\ paintable # NULL
  /\ call.in.width > 0
  /\ call.in.width < 650
  /\ call.in.an > 1
  /\ \E i \in ImageIdx(call.nodes) : PaintedRect(call.nodes, i).x.n < 0

\* C12: with paintable = NULL, measure writes neither minimum nor natural
\* (they keep the caller's values) and snapshot makes no call on the
\* GtkSnapshot, whatever top_half, rounded_corners and filter are.
C12_NullPaintableDoesNothing ==
  paintable = NULL =>
    /\ call.op = "measure" =>
         /\ call.out.minimum = call.in.m0
         /\ call.out.natural = call.in.n0
    /\ call.op = "snapshot" => call.nodes = <<>>

\* a top-half measure without a paintable that left two different caller
\* values in place
C12_Witness ==
  /\ paintable = NULL
  /\ top_half
  /\ call.op = "measure"
  /\ call.in.m0 # call.in.n0
  /\ call.out.minimum = call.in.m0
  /\ call.out.natural = call.in.n0

PushIdx(nodes) ==
  {i \in DOMAIN nodes : nodes[i].op \in {"push_rounded_clip", "push_clip"}}
PopIdx(nodes) == {i \in DOMAIN nodes : nodes[i].op = "pop"}

\* C14: in every snapshot the pops equal the clip pushes: 0 without rounded
\* corners, 1 with rounded corners in fit mode, 2 with rounded corners in
\* top-half mode; every pop comes after the pushes and after the image, also
\* when an async texture has no texture yet and nothing is appended.
C14_ClipsBalanced ==
  (call.op = "snapshot" /\ paintable # NULL) =>
    LET nodes  == call.nodes
        expect == IF ~rounded_corners THEN 0 ELSE IF top_half THEN 2 ELSE 1
    IN  /\ Cardinality(PushIdx(nodes)) = expect
        /\ Cardinality(PopIdx(nodes)) = expect
        /\ \A i \in PopIdx(nodes) :
             /\ \A j \in ImageIdx(nodes) : j < i
             /\ \A j \in PushIdx(nodes) : j < i

\* a rounded top-half snapshot of an async texture that is not loaded: two
\* clips pushed and popped around no image
C14_Witness ==
  /\ call.op = "snapshot"
  /\ paintable # NULL
  /\ rounded_corners
  /\ top_half
  /\ ImageIdx(call.nodes) = {}
  /\ Cardinality(PopIdx(call.nodes)) = 2

(* --------------------- claim: signal connections ----------------------- *)

\* the handlers the widget should have on paintable p
ExpectedHandlers(p) ==
  IF p = paintable
  THEN [contents |-> 1, size |-> 1,
        loaded |-> IF PaintableKind(p) = "async" THEN 1 ELSE 0]
  ELSE NoHandlers

\* C13: invalidate_contents and invalidate_size are connected exactly once to
\* the current paintable and to no other, async_loaded exactly once iff the
\* current paintable is an async texture; after dispose no handler is left;
\* a signal of a paintable that is not the current one queues no draw and no
\* resize.
C13_HandlersFollowPaintable ==
  /\ \A p \in Paintables : handlers[p] = ExpectedHandlers(p)
  /\ disposed => \A p \in Paintables : handlers[p] = NoHandlers
  /\ (call.op = "emit" /\ call.arg # paintable) =>
        call.draws = 0 /\ call.resizes = 0

(* ------------------- claim: resolve_group_from_entry ------------------- *)

\* the calls and reads of the last get_main_icon or entry_clicked
CallEvents ==
  IF call.op = "get_main_icon" THEN call.events
  ELSE IF call.op = "entry_clicked" THEN call.ran.events
  ELSE <<>>

\* C15: from get_main_icon and from entry_clicked, resolve_group_from_entry is
\* only called with a non-NULL entry and reads the addon extension-of ref
\* only of a Flatpak entry, for every list item; entry_clicked calls
\* bz_window_show_group at most once and only when the window and the group
\* are both found.
C15_ResolveOnlyOnFlatpakEntry ==
  /\ \A i \in DOMAIN CallEvents :
       /\ ~CallEvents[i].entry_null
       /\ CallEvents[i].ev = "bz_flatpak_entry_get_addon_extension_of_ref"
            => CallEvents[i].flatpak
  /\ call.op = "entry_clicked" =>
       /\ call.ran.shown <= 1
       /\ call.ran.shown = 1 =>
            ~call.in.window.null /\ ~call.ran.group.null

(* ------------------------------ bz-spdx.c ------------------------------ *)

MaxSuffixLen == 2

\* "LicenseRef-proprietary"
ProprietaryPrefix ==
  <<"L", "i", "c", "e", "n", "s", "e", "R", "e", "f", "-",
    "p", "r", "o", "p", "r", "i", "e", "t", "a", "r", "y">>
Proprietary ==
  <<"P", "r", "o", "p", "r", "i", "e", "t", "a", "r", "y">>

\* g_str_has_prefix (str, prefix)
GStrHasPrefix(str, prefix) ==
  /\ Len(str) >= Len(prefix)
  /\ SubSeq(str, 1, Len(prefix)) = prefix

\* the AppStream license database for one id: what as_get_license_url and
\* as_license_to_spdx_id return for it
LicenseDb(url, spdx) == [url |-> url, spdx |-> spdx]

\* bz_spdx_get_name without the copy of the input as the last resort
BzSpdxGetNameNoCopy(license_id, db) ==
  IF license_id = NULLSTR
  THEN [ret |-> NULLSTR, lookups |-> <<>>]
  ELSE IF GStrHasPrefix(license_id, ProprietaryPrefix)
  THEN [ret |-> Proprietary, lookups |-> <<>>]
  ELSE [ret |-> db.spdx, lookups |-> <<"as_license_to_spdx_id">>]

\* bz_spdx_is_valid (license_id): the value returned and the database calls
BzSpdxIsValid(license_id, db) ==
  IF license_id = NULLSTR
  THEN [ret |-> FALSE, lookups |-> <<>>]
  ELSE [ret |-> db.url # NULLSTR, lookups |-> <<"as_get_license_url">>]

\* bz_spdx_get_url (license_id)
BzSpdxGetUrl(license_id, db) ==
  IF license_id = NULLSTR
  THEN [ret |-> NULLSTR, lookups |-> <<>>]
  ELSE [ret |-> db.url, lookups |-> <<"as_get_license_url">>]

\* bz_spdx_get_name (license_id)
BzSpdxGetName(license_id, db) ==
  IF license_id = NULLSTR
  THEN [ret |-> NULLSTR, lookups |-> <<>>]
  ELSE IF GStrHasPrefix(license_id, ProprietaryPrefix)
  THEN [ret |-> Proprietary, lookups |-> <<>>]
  ELSE [ret |-> IF db.spdx = NULLSTR THEN license_id ELSE db.spdx,
        lookups |-> <<"as_license_to_spdx_id">>]

\* license ids: NULL, and every start of the proprietary prefix followed by
\* a short suffix
LicenseChars == {"M", "="}
LicenseIds ==
  {NULLSTR}
  \cup {SubSeq(ProprietaryPrefix, 1, k) \o suffix :
          k \in 0..Len(ProprietaryPrefix),
          suffix \in StringsOver(LicenseChars, MaxSuffixLen)}
LicenseDbs ==
  {LicenseDb(url, spdx) :
     url \in {NULLSTR, <<"u">>}, spdx \in {NULLSTR, <<"M">>}}
SpdxRequests ==
  [op : {"bz_spdx_is_valid", "bz_spdx_get_url", "bz_spdx_get_name"},
   license_id : LicenseIds, db : LicenseDbs]

SpdxAnswer(ran) ==
  /\ call' = [op |-> request.op, in |-> request,
              ret |-> ran.ret, lookups |-> ran.lookups]
  /\ UNCHANGED <<wvars, ovars, tvars, useAfterFree, lastSet, request>>

CallSpdxIsValid ==
  /\ request.op = "bz_spdx_is_valid"
  /\ SpdxAnswer(BzSpdxIsValid(request.license_id, request.db))

CallSpdxGetUrl ==
  /\ request.op = "bz_spdx_get_url"
  /\ SpdxAnswer(BzSpdxGetUrl(request.license_id, request.db))

CallSpdxGetName ==
  /\ request.op = "bz_spdx_get_name"
  /\ SpdxAnswer(BzSpdxGetName(request.license_id, request.db))

SpdxInit ==
  /\ InitObjects
  /\ request \in SpdxRequests

SpdxNext ==
  \/ CallSpdxIsValid
  \/ CallSpdxGetUrl
  \/ CallSpdxGetName

SpdxSpec == SpdxInit /\ [][SpdxNext]_vars

\* the id starts with "LicenseRef-proprietary", character by character
StartsProprietary(id) ==
  \A i \in DOMAIN ProprietaryPrefix :
    i <= Len(id) /\ id[i] = ProprietaryPrefix[i]

\* C16: for a non-NULL id bz_spdx_get_name never returns NULL: "Proprietary"
\* without a database lookup when the id starts with
\* "LicenseRef-proprietary", else the database's SPDX conversion if there is
\* one, else a copy of the id; bz_spdx_is_valid is TRUE exactly when
\* bz_spdx_get_url is non-NULL for the same id; for a NULL id the three
\* return FALSE / NULL.
C16_SpdxNameNeverNull ==
  LET id == call.in.license_id
      db == call.in.db
  IN  /\ call.op = "bz_spdx_get_name" =>
           IF id = NULLSTR THEN call.ret = NULLSTR
           ELSE /\ call.ret # NULLSTR
                /\ IF StartsProprietary(id)
                   THEN call.ret = Proprietary /\ call.lookups = <<>>
                   ELSE IF db.spdx # NULLSTR THEN call.ret = db.spdx
                   ELSE call.ret = id
      /\ call.op = "bz_spdx_is_valid" =>
           /\ call.ret = (BzSpdxGetUrl(id, db).ret # NULLSTR)
           /\ id = NULLSTR => call.ret = FALSE
      /\ call.op = "bz_spdx_get_url" =>
           /\ (call.ret # NULLSTR) = BzSpdxIsValid(id, db).ret
           /\ id = NULLSTR => call.ret = NULLSTR

\* get_name copied an id the database does not convert, one that starts like
\* the proprietary prefix but is not one
C16_Witness ==
  /\ call.op = "bz_spdx_get_name"
  /\ call.in.db.spdx = NULLSTR
  /\ call.in.license_id # NULLSTR
  /\ Len(call.in.license_id) > Len(ProprietaryPrefix)
  /\ ~StartsProprietary(call.in.license_id)
  /\ call.ret = call.in.license_id

====
